---- MODULE Spec2Model ----
\* Model of the user-space TCP engine of src/rust/src/main.rs (the packet loop)
\* and src/rust/src/tcp.rs (TCPConnection::accept, the passive open).
\*
\* Sequence numbers are u32 in the source. They are scaled here to SeqBits
\* bits: every addition on them goes through AddU32, which wraps at SeqMod or
\* panics, exactly where the source's `+` on a u32 does.
EXTENDS Integers, Sequences, FiniteSets, TLC

\* ---------------------------------------------------------------------------
\* Bounds of the model
\* ---------------------------------------------------------------------------

\* Width of a sequence number (32 in the source).
SeqBits == 2

SeqMod == 2 ^ SeqBits

SeqValues == 0 .. (SeqMod - 1)

\* Acknowledgment numbers carried by inbound segments that have ACK set.
AckValues == {0, 1}

\* Window sizes carried by inbound segments (u16 in the source).
WindowValues == {10, 4096}

\* ---------------------------------------------------------------------------
\* Data model (tcp.rs)
\* ---------------------------------------------------------------------------

\* The address the virtual interface is configured with.
LocalAddress == "10.0.0.1"

\* Remote endpoints that send packets into the interface.
Peers == {[address |-> "1.2.3.4", port |-> 5000]}

\* Destinations of packets routed into the interface: the interface's own
\* address and another address of the 10.0.0.0/24 network it serves.
Destinations ==
  {[address |-> LocalAddress, port |-> 80], [address |-> "10.0.0.2", port |-> 80]}

Location == Peers \cup Destinations

ConnectionQuad == [source : Peers, destiation : Destinations]

TCPConnectionState == {"Closed", "Listen", "SYNReceived", "Established"}

\* ---------------------------------------------------------------------------
\* Packets read from and written to the virtual interface
\* ---------------------------------------------------------------------------

\* Decoded IPv4/TCP segments. The acknowledgment number is 0 unless ACK is set.
TCPSegments ==
  { p \in [kind : {"tcp"}, source : Peers, destination : Destinations,
           sequence_number : SeqValues, acknowledgment_number : AckValues,
           syn : BOOLEAN, ack : BOOLEAN, window_size : WindowValues] :
      (~p.ack) => (p.acknowledgment_number = 0) }

\* A packet that is dropped before the table lookup, one for each filter.
Undecodable(kind) ==
  [kind |-> kind, source |-> CHOOSE l \in Peers : TRUE,
   destination |-> CHOOSE l \in Destinations : TRUE,
   sequence_number |-> 0, acknowledgment_number |-> 0,
   syn |-> FALSE, ack |-> FALSE, window_size |-> 0]

NoPacket == Undecodable("none")

\* ---------------------------------------------------------------------------
\* State
\* ---------------------------------------------------------------------------

VARIABLES
  connections,     \* main.rs:44, the table, as a set of (quad, tcb) entries
  vNIC,            \* the packets written to the interface, in order
  status,          \* "running", "exited" (main returned Err), "panicked"
  overflowChecks,  \* build profile: TRUE when u32 overflow panics
  lastPacket,      \* the packet read by the last iteration of the loop
  outcome          \* what the last iteration of the loop did

vars == <<connections, vNIC, status, overflowChecks, lastPacket, outcome>>

\* ---------------------------------------------------------------------------
\* tcp.rs
\* ---------------------------------------------------------------------------

\* `a + b` clamped at the largest value instead of wrapping.
AddU32Saturating(a, b, checks) ==
  IF a + b >= SeqMod
    THEN IF checks THEN [panic |-> TRUE, value |-> 0]
                   ELSE [panic |-> FALSE, value |-> SeqMod - 1]
    ELSE [panic |-> FALSE, value |-> a + b]

\* `a + b` on u32: panics in a build with overflow checks, wraps otherwise.
AddU32(a, b, checks) ==
  IF a + b >= SeqMod
    THEN IF checks THEN [panic |-> TRUE, value |-> 0]
                   ELSE [panic |-> FALSE, value |-> (a + b) % SeqMod]
    ELSE [panic |-> FALSE, value |-> a + b]

initialSendSequenceNumber == 0

sendWindowSize == 1024

\* The window_size argument of TcpHeader::new for the SYN+ACK.
synAckWindowSize == 10

\* The guard of accept: a segment without SYN cannot open a connection.
acceptRejectsNever(p) == FALSE

acceptRejects(p) == ~p.syn

\* The TCB left in the #[default] state of TCPConnectionState.
TCPConnectionDefaultState(p, nxt) ==
  [state |-> "Closed",
   receiveSequenceVariables |->
     [initialReceiveSequenceNumber |-> p.sequence_number,
      nextByteSequenceNumber |-> nxt,
      windowSize |-> p.window_size,
      up |-> FALSE],
   sendSequenceVariables |->
     [initialSendSequenceNumber |-> initialSendSequenceNumber,
      oldestUnacknowledgedSequenceNumber |-> initialSendSequenceNumber,
      nextSequenceNumber |-> initialSendSequenceNumber,
      windowSize |-> sendWindowSize,
      up |-> FALSE,
      lastWindowUpdateSegmentSequenceNumber |-> initialSendSequenceNumber,
      lastWindowUpdateAcknowledgementNumber |-> initialSendSequenceNumber]]

\* The TCB built by accept.
TCPConnection(p, nxt) ==
  [state |-> "SYNReceived",
   receiveSequenceVariables |->
     [initialReceiveSequenceNumber |-> p.sequence_number,
      nextByteSequenceNumber |-> nxt,
      windowSize |-> p.window_size,
      up |-> FALSE],
   sendSequenceVariables |->
     [initialSendSequenceNumber |-> initialSendSequenceNumber,
      oldestUnacknowledgedSequenceNumber |-> initialSendSequenceNumber,
      nextSequenceNumber |-> initialSendSequenceNumber,
      windowSize |-> sendWindowSize,
      up |-> FALSE,
      lastWindowUpdateSegmentSequenceNumber |-> initialSendSequenceNumber,
      lastWindowUpdateAcknowledgementNumber |-> initialSendSequenceNumber]]

\* The SYN+ACK with the inbound source and destination copied, not swapped.
synAckPacketUnswapped(p, ackno) ==
  [kind |-> "tcp",
   source |-> p.source,
   destination |-> p.destination,
   sequence_number |-> 0,
   acknowledgment_number |-> ackno,
   syn |-> TRUE,
   ack |-> TRUE,
   window_size |-> synAckWindowSize]

\* The SYN+ACK built by accept: TcpHeader::new(destination_port, source_port,
\* 0, 10), then acknowledgment_number, ack and syn; the IPv4 header goes from
\* the inbound destination to the inbound source.
synAckPacket(p, ackno) ==
  [kind |-> "tcp",
   source |-> p.destination,
   destination |-> p.source,
   sequence_number |-> 0,
   acknowledgment_number |-> ackno,
   syn |-> TRUE,
   ack |-> TRUE,
   window_size |-> synAckWindowSize]

\* accept with the result of nic.send dropped instead of propagated by `?`.
acceptIgnoringSendError(p, sendOk, checks) ==
  IF acceptRejects(p)
    THEN [tag |-> "Err", connection |-> <<>>, sent |-> <<>>]
    ELSE
      LET nxt == AddU32(p.sequence_number, 1, checks)
      IN IF nxt.panic
           THEN [tag |-> "Panic", connection |-> <<>>, sent |-> <<>>]
           ELSE [tag |-> "Ok",
                 connection |-> TCPConnection(p, nxt.value),
                 sent |-> IF sendOk THEN <<synAckPacket(p, nxt.value)>> ELSE <<>>]

\* TCPConnection::accept. sendOk is the result of nic.send. The result is
\* Ok(connection), an Err (tag "Err") or a panic; sent holds what was written.
accept(p, sendOk, checks) ==
  IF acceptRejects(p)
    THEN [tag |-> "Err", connection |-> <<>>, sent |-> <<>>]
    ELSE
      LET nxt == AddU32(p.sequence_number, 1, checks)
      IN IF nxt.panic
           THEN [tag |-> "Panic", connection |-> <<>>, sent |-> <<>>]
           ELSE IF sendOk
             THEN [tag |-> "Ok",
                   connection |-> TCPConnection(p, nxt.value),
                   sent |-> <<synAckPacket(p, nxt.value)>>]
             ELSE [tag |-> "Err", connection |-> <<>>, sent |-> <<>>]

\* ---------------------------------------------------------------------------
\* main.rs
\* ---------------------------------------------------------------------------

\* The key computed from the decoded headers.
connectionQuad(p) == [source |-> p.source, destiation |-> p.destination]

\* connections.entry(quad) is Entry::Vacant.
VacantAlways(table, quad) == TRUE

Vacant(table, quad) == \A e \in table : e.quad # quad

\* An insert that rebuilds the table from the new entry alone.
insertClobbering(table, quad, connection) ==
  {[quad |-> quad, tcb |-> connection]}

\* entry.insert(newConnection)
insert(table, quad, connection) ==
  table \cup {[quad |-> quad, tcb |-> connection]}

Init ==
  /\ connections = {}
  /\ vNIC = <<>>
  /\ status = "running"
  /\ overflowChecks \in BOOLEAN
  /\ lastPacket = NoPacket
  /\ outcome = "start"

\* vNIC.recv(&mut buffer)? fails: main returns the error.
RecvError ==
  /\ status = "running"
  /\ status' = "exited"
  /\ lastPacket' = NoPacket
  /\ outcome' = "recvFailed"
  /\ UNCHANGED <<connections, vNIC, overflowChecks>>

\* Ipv4HeaderSlice::from_slice fails: continue.
IgnoreNotIPv4 ==
  /\ status = "running"
  /\ lastPacket' = Undecodable("notIPv4")
  /\ outcome' = "ignored"
  /\ UNCHANGED <<connections, vNIC, status, overflowChecks>>

\* The loop without the protocol filter: the payload of a non-TCP packet is
\* read as a TCP header and opens a connection.
IgnoreNotTCPUnfiltered ==
  /\ status = "running"
  /\ lastPacket' = Undecodable("notTCP")
  /\ outcome' = "ignored"
  /\ connections' =
       insert(connections, connectionQuad(lastPacket'),
              TCPConnection(lastPacket', 1))
  /\ vNIC' = vNIC \o <<synAckPacket(lastPacket', 1)>>
  /\ UNCHANGED <<status, overflowChecks>>

\* protocol() != IpNumber::TCP: continue.
IgnoreNotTCP ==
  /\ status = "running"
  /\ lastPacket' = Undecodable("notTCP")
  /\ outcome' = "ignored"
  /\ UNCHANGED <<connections, vNIC, status, overflowChecks>>

\* TcpHeaderSlice::from_slice fails: continue.
IgnoreBadTCP ==
  /\ status = "running"
  /\ lastPacket' = Undecodable("badTCP")
  /\ outcome' = "ignored"
  /\ UNCHANGED <<connections, vNIC, status, overflowChecks>>

\* Entry::Vacant: accept, then insert on Ok, continue on Err.
AcceptVacant(p, sendOk) ==
  /\ status = "running"
  /\ Vacant(connections, connectionQuad(p))
  /\ LET r == accept(p, sendOk, overflowChecks)
     IN /\ vNIC' = vNIC \o r.sent
        /\ connections' =
             IF r.tag = "Ok"
               THEN insert(connections, connectionQuad(p), r.connection)
               ELSE connections
        /\ status' = IF r.tag = "Panic" THEN "panicked" ELSE "running"
        /\ outcome' =
             CASE r.tag = "Ok" -> "accepted"
               [] r.tag = "Panic" -> "overflow"
               [] OTHER -> IF acceptRejects(p) THEN "acceptFailed" ELSE "sendFailed"
  /\ lastPacket' = p
  /\ UNCHANGED overflowChecks

\* Entry::Occupied: unimplemented!().
ProcessOccupied(p) ==
  /\ status = "running"
  /\ ~Vacant(connections, connectionQuad(p))
  /\ status' = "panicked"
  /\ outcome' = "unimplemented"
  /\ lastPacket' = p
  /\ UNCHANGED <<connections, vNIC, overflowChecks>>

Next ==
  \/ RecvError
  \/ IgnoreNotIPv4
  \/ IgnoreNotTCP
  \/ IgnoreBadTCP
  \/ \E p \in TCPSegments, sendOk \in BOOLEAN : AcceptVacant(p, sendOk)
  \/ \E p \in TCPSegments : ProcessOccupied(p)

Spec == Init /\ [][Next]_vars

\* ---------------------------------------------------------------------------
\* Properties
\* ---------------------------------------------------------------------------

\* The entries of a table for one quad.
entriesOf(table, quad) == { e \in table : e.quad = quad }

\* The last packet written to the interface.
lastSent == vNIC[Len(vNIC)]

\* a <= x <= b in the sequence space, by distance from a.
inSeqRange(a, x, b) == ((x - a) % SeqMod) <= ((b - a) % SeqMod)

\* C1: a SYN for a quad with no entry, the interface write succeeding, makes
\* the loop insert exactly one TCB for that quad, in SYN-RECEIVED, and write
\* exactly one segment, a SYN+ACK whose ack is the inbound sequence number
\* plus 1.
C1_SynYieldsTcbAndSynAck ==
  [][\A p \in TCPSegments :
       ( /\ status = "running"
         /\ lastPacket' = p
         /\ p.syn
         /\ Vacant(connections, connectionQuad(p))
         /\ outcome' # "sendFailed" )
       => ( /\ Cardinality(connections') = Cardinality(connections) + 1
            /\ connections \subseteq connections'
            /\ Cardinality(entriesOf(connections', connectionQuad(p))) = 1
            /\ \A e \in entriesOf(connections', connectionQuad(p)) :
                 e.tcb.state = "SYNReceived"
            /\ Len(vNIC') = Len(vNIC) + 1
            /\ SubSeq(vNIC', 1, Len(vNIC)) = vNIC
            /\ vNIC'[Len(vNIC')].syn
            /\ vNIC'[Len(vNIC')].ack
            /\ vNIC'[Len(vNIC')].acknowledgment_number
                 = (p.sequence_number + 1) % SeqMod )]_vars

\* C2: a segment without SYN for a quad with no entry makes accept fail; the
\* table and the interface output are unchanged and the loop keeps running.
C2_NonSynCreatesNothing ==
  [][\A p \in TCPSegments :
       ( /\ status = "running"
         /\ lastPacket' = p
         /\ ~p.syn
         /\ Vacant(connections, connectionQuad(p)) )
       => ( /\ outcome' = "acceptFailed"
            /\ connections' = connections
            /\ vNIC' = vNIC
            /\ status' = "running" )]_vars

\* A non-SYN segment was rejected while the table already held another quad.
C2_Witness ==
  /\ outcome = "acceptFailed"
  /\ lastPacket \in TCPSegments
  /\ ~lastPacket.syn
  /\ lastPacket.ack
  /\ Vacant(connections, connectionQuad(lastPacket))
  /\ connections # {}
  /\ status = "running"

\* C3: the table never holds two TCBs for one quad, and an entry, once in the
\* table, is neither replaced nor joined by a second one for its quad.
C3_OneTcbPerQuad ==
  /\ [](\A e1, e2 \in connections : (e1.quad = e2.quad) => (e1 = e2))
  /\ [][\A e \in connections :
          entriesOf(connections', e.quad) = {e}]_vars

\* A second segment arrived for a quad that has an entry, with both quads in
\* the table.
C3_Witness ==
  /\ outcome = "unimplemented"
  /\ lastPacket \in TCPSegments
  /\ lastPacket.syn
  /\ Cardinality(entriesOf(connections, connectionQuad(lastPacket))) = 1
  /\ Cardinality(connections) = 2

\* C4: a segment arriving for a quad that already has a TCB is handled and
\* the loop goes on to the next packet, never to a hard failure.
C4_ExistingQuadSegmentHandled ==
  [][\A p \in TCPSegments :
       ( /\ status = "running"
         /\ lastPacket' = p
         /\ ~Vacant(connections, connectionQuad(p)) )
       => (status' = "running")]_vars

\* C5: for a TCB in SYN-RECEIVED, a segment with ACK set and
\* SND.UNA <= ack <= SND.NXT moves the TCB to ESTABLISHED with SND.UNA = ack;
\* any other segment leaves it in SYN-RECEIVED.
C5_SynReceivedAckEstablishes ==
  [][\A p \in TCPSegments : \A e \in connections :
       ( /\ status = "running"
         /\ lastPacket' = p
         /\ e.quad = connectionQuad(p)
         /\ e.tcb.state = "SYNReceived" )
       => \E f \in entriesOf(connections', e.quad) :
            IF /\ p.ack
               /\ inSeqRange(e.tcb.sendSequenceVariables.oldestUnacknowledgedSequenceNumber,
                             p.acknowledgment_number,
                             e.tcb.sendSequenceVariables.nextSequenceNumber)
              THEN /\ f.tcb.state = "Established"
                   /\ f.tcb.sendSequenceVariables.oldestUnacknowledgedSequenceNumber
                        = p.acknowledgment_number
              ELSE f.tcb.state = "SYNReceived"]_vars

\* C6: after a successful passive open the new TCB has SND.ISS = ISS,
\* SND.UNA = ISS and SND.NXT = ISS + 1.
C6_SndNxtCountsTheSyn ==
  (outcome = "accepted") =>
    \A e \in entriesOf(connections, connectionQuad(lastPacket)) :
      LET snd == e.tcb.sendSequenceVariables
      IN /\ snd.oldestUnacknowledgedSequenceNumber = snd.initialSendSequenceNumber
         /\ snd.nextSequenceNumber = (snd.initialSendSequenceNumber + 1) % SeqMod

\* C7: the SYN+ACK of a passive open advertises the RCV.WND stored in the TCB
\* that the same acceptance creates.
C7_SynAckAdvertisesRcvWnd ==
  (outcome = "accepted") =>
    \A e \in entriesOf(connections, connectionQuad(lastPacket)) :
      lastSent.window_size = e.tcb.receiveSequenceVariables.windowSize

\* C8: a segment with both SYN and ACK set, for a quad with no entry, creates
\* no TCB and causes no outbound segment.
C8_SynWithAckCreatesNothing ==
  [][\A p \in TCPSegments :
       ( /\ status = "running"
         /\ lastPacket' = p
         /\ p.syn
         /\ p.ack
         /\ Vacant(connections, connectionQuad(p)) )
       => ( /\ connections' = connections
            /\ vNIC' = vNIC )]_vars

\* C9: a SYN for a quad with no entry whose destination address is not the
\* interface's own address creates no TCB: the table is unchanged.
C9_OnlyLocalDestinations ==
  [][\A p \in TCPSegments :
       ( /\ status = "running"
         /\ lastPacket' = p
         /\ p.syn
         /\ Vacant(connections, connectionQuad(p))
         /\ p.destination.address # LocalAddress )
       => (connections' = connections)]_vars

\* C10: two TCBs created by two different passive opens have different
\* initial send sequence numbers.
C10_DistinctInitialSendSequenceNumbers ==
  \A e1, e2 \in connections :
    (e1 # e2) =>
      (e1.tcb.sendSequenceVariables.initialSendSequenceNumber
         # e2.tcb.sendSequenceVariables.initialSendSequenceNumber)

\* a <= b in the sequence space: the signed distance from a to b is >= 0.
seqLessOrEqual(a, b) == ((b - a) % SeqMod) < (SeqMod \div 2)

\* C11: when the write of a SYN+ACK fails during a passive open, the error
\* leaves the loop: the loop does not go on to read another packet.
C11_SendFailureIsFatal ==
  (outcome = "sendFailed") => (status # "running")

\* C12: a packet that fails IPv4 decoding, is not TCP, or fails TCP decoding
\* is discarded before the lookup: table and interface output are unchanged
\* and the loop keeps running.
C12_UndecodableDiscarded ==
  [][( /\ status = "running"
       /\ lastPacket'.kind \in {"notIPv4", "notTCP", "badTCP"} )
     => ( /\ connections' = connections
          /\ vNIC' = vNIC
          /\ status' = "running"
          /\ outcome' = "ignored" )]_vars

\* A non-TCP packet was discarded while the table held a TCB.
C12_Witness ==
  /\ outcome = "ignored"
  /\ lastPacket.kind = "notTCP"
  /\ connections # {}
  /\ Len(vNIC) > 0
  /\ status = "running"

\* C13: for every sequence number seq of an accepted SYN, the largest one
\* included, the passive open completes without failure with RCV.IRS = seq,
\* RCV.NXT = seq + 1 modulo the sequence space, and the SYN+ACK acknowledges
\* seq + 1 modulo the sequence space.
C13_EverySequenceNumberAccepted ==
  [][\A p \in TCPSegments :
       ( /\ status = "running"
         /\ lastPacket' = p
         /\ p.syn
         /\ Vacant(connections, connectionQuad(p))
         /\ outcome' # "sendFailed" )
       => ( /\ status' = "running"
            /\ \E e \in entriesOf(connections', connectionQuad(p)) :
                 /\ e.tcb.receiveSequenceVariables.initialReceiveSequenceNumber
                      = p.sequence_number
                 /\ e.tcb.receiveSequenceVariables.nextByteSequenceNumber
                      = (p.sequence_number + 1) % SeqMod
            /\ Len(vNIC') > 0
            /\ vNIC'[Len(vNIC')].acknowledgment_number
                 = (p.sequence_number + 1) % SeqMod )]_vars

\* C15: no entry whose TCB is in a state other than CLOSED is ever deleted
\* from the table.
C15_OnlyClosedEntriesRemoved ==
  [][\A e \in connections :
       (e.tcb.state # "Closed") => (e \in connections')]_vars

\* An entry stayed in the table while a later passive open added another.
C15_Witness ==
  /\ outcome = "accepted"
  /\ Cardinality(connections) = 2
  /\ \A e \in connections : e.tcb.state # "Closed"

\* C16: a TCB enters the table in SYN-RECEIVED, no TCB in the table is ever
\* in CLOSED or LISTEN, a TCB's state never goes back, and a TCB is in
\* ESTABLISHED only after it was in SYN-RECEIVED and got an acceptable ACK.
C16_StateOnlyMovesForward ==
  /\ [](\A e \in connections : e.tcb.state \notin {"Closed", "Listen"})
  /\ [][\A f \in connections' :
          IF entriesOf(connections, f.quad) = {}
            THEN f.tcb.state = "SYNReceived"
            ELSE \A e \in entriesOf(connections, f.quad) :
                   \/ f.tcb.state = e.tcb.state
                   \/ /\ e.tcb.state = "SYNReceived"
                      /\ f.tcb.state = "Established"
                      /\ lastPacket'.ack
                      /\ inSeqRange(
                           e.tcb.sendSequenceVariables.oldestUnacknowledgedSequenceNumber,
                           lastPacket'.acknowledgment_number,
                           e.tcb.sendSequenceVariables.nextSequenceNumber)]_vars

\* A passive open has just put a TCB in SYN-RECEIVED into the table.
C16_Witness ==
  /\ outcome = "accepted"
  /\ \E e \in entriesOf(connections, connectionQuad(lastPacket)) :
       e.tcb.state = "SYNReceived"

\* C17: every TCB in the table has SND.ISS <= SND.UNA <= SND.NXT in the
\* sequence space, and RCV.NXT = RCV.IRS + 1 modulo the sequence space while
\* it is in SYN-RECEIVED.
C17_SequenceVariablesOrdered ==
  \A e \in connections :
    LET snd == e.tcb.sendSequenceVariables
        rcv == e.tcb.receiveSequenceVariables
    IN /\ seqLessOrEqual(snd.initialSendSequenceNumber,
                         snd.oldestUnacknowledgedSequenceNumber)
       /\ seqLessOrEqual(snd.oldestUnacknowledgedSequenceNumber,
                         snd.nextSequenceNumber)
       /\ (e.tcb.state = "SYNReceived") =>
            (rcv.nextByteSequenceNumber
               = (rcv.initialReceiveSequenceNumber + 1) % SeqMod)

\* A TCB was created from a SYN carrying the largest sequence number, so that
\* RCV.NXT wrapped to 0.
C17_Witness ==
  \E e \in connections :
    /\ e.tcb.receiveSequenceVariables.initialReceiveSequenceNumber = SeqMod - 1
    /\ e.tcb.receiveSequenceVariables.nextByteSequenceNumber = 0

\* C18: a TCB is in the table only if its SYN+ACK was written to the
\* interface; when the write fails, nothing is inserted, the table and the
\* output are unchanged, and the quad stays vacant for a later SYN.
C18_RegisteredOnlyAfterSynAckWritten ==
  /\ [](\A e \in connections :
          \E i \in 1 .. Len(vNIC) :
            /\ vNIC[i].source = e.quad.destiation
            /\ vNIC[i].destination = e.quad.source
            /\ vNIC[i].acknowledgment_number
                 = e.tcb.receiveSequenceVariables.nextByteSequenceNumber)
  /\ [](Cardinality(connections) = Len(vNIC))
  /\ [][(status = "running" /\ outcome' = "sendFailed")
          => ( /\ connections' = connections
               /\ vNIC' = vNIC
               /\ status' = "running"
               /\ Vacant(connections', connectionQuad(lastPacket')) )]_vars

\* The write of the SYN+ACK failed for a SYN while another quad had a TCB.
C18_Witness ==
  /\ outcome = "sendFailed"
  /\ lastPacket.syn
  /\ Vacant(connections, connectionQuad(lastPacket))
  /\ connections # {}

\* C19: the SYN+ACK of an accepted SYN goes from the inbound destination to
\* the inbound source, has SYN and ACK set, and its sequence number is the
\* SND.ISS of the TCB created by that acceptance.
C19_SynAckAddressedToPeer ==
  (outcome = "accepted") =>
    /\ lastSent.source = lastPacket.destination
    /\ lastSent.destination = lastPacket.source
    /\ lastSent.syn
    /\ lastSent.ack
    /\ \A e \in entriesOf(connections, connectionQuad(lastPacket)) :
         lastSent.sequence_number
           = e.tcb.sendSequenceVariables.initialSendSequenceNumber

\* A SYN to the second destination was accepted after another passive open.
C19_Witness ==
  /\ outcome = "accepted"
  /\ Len(vNIC) = 2
  /\ lastPacket.destination.address # LocalAddress

====
